---- MODULE Spec2Model ----
(***************************************************************************)
(* Model of datacontract/export/odps_export.py: the function to_odps that  *)
(* converts a data contract specification into an Open Data Product        *)
(* Specification (ODPS) dictionary.                                        *)
(*                                                                         *)
(* Python values are encoded as tagged records:                            *)
(*   Missing   the attribute does not exist (hasattr(...) is False)        *)
(*   None      the attribute exists and is None                            *)
(*   Str(s)    a string                                                    *)
(*   List(q)   a list held in an attribute that may also be None           *)
(*   [k |-> "obj", ...]   an object with attributes                        *)
(*   [k |-> "dict", items |-> <<[name, val], ...>>]  an insertion-ordered  *)
(*                        mapping                                          *)
(* Dictionaries built by to_odps are TLA+ functions over their string      *)
(* keys, and the lists it builds are sequences.                            *)
(***************************************************************************)
EXTENDS Integers, Sequences, FiniteSets, TLC

VARIABLES src, pc, odps, results

vars == <<src, pc, odps, results>>

(* ------------------------------ bounds --------------------------------- *)
MaxCalls == 2
MaxServers == 2
MaxModels == 2
MaxFields == 2
MaxRules == 2

(* --------------------------- Python values ----------------------------- *)
Missing == [k |-> "missing"]
None == [k |-> "none"]
Str(s) == [k |-> "str", v |-> s]
List(q) == [k |-> "list", v |-> q]
Dict(q) == [k |-> "dict", items |-> q]
EmptyDict == [x \in {} |-> x]

\* getattr(o, a, Missing): objects are records, absent attributes are
\* either not in the record or hold Missing
GetAttr(o, a) == IF a \in DOMAIN o THEN o[a] ELSE Missing

HasAttr(o, a) == GetAttr(o, a) # Missing

\* bool(v)
Truthy(v) ==
    CASE v.k = "missing" -> FALSE
      [] v.k = "none" -> FALSE
      [] v.k = "str" -> v.v # ""
      [] v.k = "list" -> v.v # <<>>
      [] v.k = "dict" -> v.items # <<>>
      [] OTHER -> TRUE

\* `o.a if hasattr(o, 'a') else default`
AttrOr(o, a, default) == IF HasAttr(o, a) THEN o[a] ELSE default

\* `v or default`
ValueOr(v, default) == IF Truthy(v) THEN v ELSE default

\* dict.items() of an insertion-ordered mapping, in insertion order
Items(d) == IF d.k = "dict" THEN d.items ELSE <<>>

\* str.capitalize() on the keys to_odps capitalizes
Capitalize(s) ==
    CASE s = "servicelevel" -> "Servicelevel"
      [] s = "availability" -> "Availability"
      [] s = "retention" -> "Retention"
      [] s = "latency" -> "Latency"
      [] s = "freshness" -> "Freshness"
      [] s = "frequency" -> "Frequency"
      [] s = "support" -> "Support"
      [] s = "backup" -> "Backup"
      [] OTHER -> s

(* ------------------------- source documents ---------------------------- *)
\* all sequences over S without repetition, of length at most n
RECURSIVE InjSeqs(_, _)
InjSeqs(S, n) ==
    IF n = 0 THEN {<<>>}
    ELSE LET shorter == InjSeqs(S, n - 1)
         IN shorter \cup
            {Append(q, x) : <<q, x>> \in
                {<<q, x>> \in shorter \X S :
                    /\ Len(q) = n - 1
                    /\ \A i \in 1..Len(q) : q[i] # x}}

\* all sequences over S of length at most n
RECURSIVE SeqsUpTo(_, _)
SeqsUpTo(S, n) ==
    IF n = 0 THEN {<<>>}
    ELSE LET shorter == SeqsUpTo(S, n - 1)
         IN shorter \cup
            {Append(q, x) : <<q, x>> \in {<<q, x>> \in shorter \X S : Len(q) = n - 1}}

\* all insertion-ordered mappings with the key sequence keys
RECURSIVE DictsOver(_, _)
DictsOver(keys, Vals) ==
    IF keys = <<>> THEN {<<>>}
    ELSE {<<[name |-> Head(keys), val |-> v]>> \o rest :
             <<v, rest>> \in Vals \X DictsOver(Tail(keys), Vals)}

KeyPool == <<"b", "a", "c", "d">>

Keys(n) == {KeyPool[i] : i \in 1..n}

Dimensions ==
    <<"availability", "retention", "latency", "freshness", "frequency", "support", "backup">>

Contacts ==
    {Missing, None} \cup
    [k : {"obj"},
     email : {Missing, None, Str("team@example.com")},
     url : {Missing, None, Str("https://example.com")}]

Infos ==
    [k : {"obj"},
     title : {None, Str(""), Str("Orders")},
     description : {None, Str("All orders")},
     version : {None, Str(""), Str("2.1.0")},
     status : {Missing, None, Str("draft")},
     owner : {Missing, None, Str("checkout")},
     contact : {Missing}]

BaseInfo ==
    [k |-> "obj", title |-> Str("Orders"), description |-> Str("All orders"),
     version |-> Str("2.1.0"), status |-> Str("draft"), owner |-> Str("checkout"),
     contact |-> None]

FullContact ==
    [k |-> "obj", email |-> Str("team@example.com"), url |-> Str("https://example.com")]

\* servers that differ in the attributes they have
AttrServers ==
    [k : {"obj"},
     type : {Missing, None, Str("s3"), Str("kafka")},
     format : {Missing, None, Str("csv"), Str("avro")}]

\* the servers of the mappings that differ in their names, order and number
Servers ==
    [k : {"obj"},
     type : {Missing, Str("s3"), Str("kafka")},
     format : {Str("csv"), Str("avro")}]

ServerDicts ==
    {Missing, None}
    \cup UNION {{Dict(q) : q \in DictsOver(ks, Servers)} :
                   ks \in InjSeqs(Keys(MaxServers), MaxServers)}
    \cup {Dict(<<[name |-> "a", val |-> v]>>) : v \in AttrServers}

Rules ==
    {[type |-> None, mustBe |-> Str("5")], [type |-> Str("uniqueness"), mustBe |-> None]}

PlainField ==
    [k |-> "obj", description |-> Str("a column"), type |-> Str("string"),
     format |-> None, quality |-> <<>>]

Fields ==
    [k : {"obj"},
     description : {Missing, None, Str("a column")},
     type : {Missing, None, Str("string")},
     format : {Missing, None, Str(""), Str("email")},
     quality : {<<>>}]

FieldDicts(Vals) ==
    UNION {{Dict(q) : q \in DictsOver(ks, Vals)} : ks \in InjSeqs(Keys(MaxFields), MaxFields)}

\* models that differ in their fields' names, order and number
ShapeModels ==
    [k : {"obj"}, description : {Str("a table")}, fields : FieldDicts({PlainField}),
     quality : {<<>>}]

\* models with no field, one field, and two fields in reverse order
SmallModels ==
    [k : {"obj"}, description : {Str("a table")},
     fields : {Dict(<<>>),
               Dict(<<[name |-> "a", val |-> PlainField]>>),
               Dict(<<[name |-> "b", val |-> PlainField], [name |-> "a", val |-> PlainField]>>)},
     quality : {<<>>}]

\* one-field models that differ in the attributes of the model and the field
AttrModels ==
    [k : {"obj"}, description : {Missing, None, Str("a table")},
     fields : {Dict(<<[name |-> "a", val |-> f]>>) : f \in Fields},
     quality : {<<>>}]

\* models that differ in the quality rules they and their field carry
RuleModels ==
    [k : {"obj"}, description : {Str("a table")},
     fields : {Dict(<<[name |-> "f1", val |-> [PlainField EXCEPT !.quality = q]]>>) :
                   q \in SeqsUpTo(Rules, MaxRules)},
     quality : SeqsUpTo(Rules, MaxRules)]

ModelDicts ==
    {Missing, None}
    \cup UNION {{Dict(q) : q \in DictsOver(ks, SmallModels)} :
                   ks \in InjSeqs(Keys(MaxModels), MaxModels)}
    \cup {Dict(<<[name |-> "M1", val |-> m]>>) :
             m \in ShapeModels \cup AttrModels \cup RuleModels}

Qualities ==
    {Missing, None} \cup
    [k : {"obj"},
     type : {Missing, None, Str("SodaCL")},
     specification : {Missing, None, Str(""), Str("checks for orders")}]

\* the attributes of one service-level dimension
SlaObjects ==
    [k : {"obj"},
     description : {Missing, Str("guaranteed")},
     percentage : {Missing, None, Str("99.9%")},
     threshold : {Missing, None, Str("1h")},
     unit : {None, Str("d")},
     interval : {None, Str("daily")}]

PlainSla ==
    [k |-> "obj", description |-> Str("guaranteed"), percentage |-> Str("99.9%"),
     threshold |-> Missing, unit |-> None, interval |-> None]

\* a ServiceLevel object: one attribute per dimension, None when not populated
ServiceLevelObject(populated, sla) ==
    [k |-> "obj",
     dims |-> [i \in 1..Len(Dimensions) |->
                  [name |-> Dimensions[i],
                   val |-> IF Dimensions[i] \in populated THEN sla ELSE None]]]

\* a mapping that holds the populated dimensions only
ServiceLevelMapping(populated, sla) ==
    Dict(SelectSeq([i \in 1..Len(Dimensions) |-> [name |-> Dimensions[i], val |-> sla]],
                   LAMBDA e : e.name \in populated))

DimensionSet == {Dimensions[i] : i \in 1..Len(Dimensions)}

ServiceLevels ==
    {Missing, None}
    \cup {ServiceLevelObject(p, PlainSla) : p \in SUBSET DimensionSet}
    \cup {ServiceLevelMapping(p, PlainSla) : p \in SUBSET DimensionSet}
    \cup {ServiceLevelObject({"availability"}, s) : s \in SlaObjects}
    \cup {ServiceLevelMapping({"availability"}, s) : s \in SlaObjects}

TagLists == {Missing, None, List(<<>>), List(<<"sales", "orders">>)}

BaseDoc ==
    [id |-> Str("orders-v1"), hasToDict |-> TRUE, tags |-> List(<<"sales", "orders">>),
     info |-> BaseInfo, servers |-> Dict(<<>>), models |-> Dict(<<>>),
     quality |-> None, servicelevels |-> None]

FullServers ==
    Dict(<<[name |-> "b", val |-> [k |-> "obj", type |-> Str("s3"), format |-> Str("csv")]]>>)

FullModels ==
    Dict(<<[name |-> "M1",
            val |-> [k |-> "obj", description |-> Str("a table"),
                     fields |-> Dict(<<[name |-> "f1", val |-> PlainField]>>),
                     quality |-> <<>>]]>>)

FullQuality ==
    [k |-> "obj", type |-> Str("SodaCL"), specification |-> Str("checks for orders")]

\* the documents to_odps is called on: each family varies one part of the
\* document; the last one varies which of the optional parts are present
Docs ==
    {[BaseDoc EXCEPT !.info = i] : i \in Infos \cup {None, Missing}}
    \cup {[BaseDoc EXCEPT !.info.contact = c] : c \in Contacts}
    \cup {[BaseDoc EXCEPT !.id = i, !.tags = t, !.hasToDict = h] :
             <<i, t, h>> \in {Missing, None, Str("orders-v1")} \X TagLists \X BOOLEAN}
    \cup {[BaseDoc EXCEPT !.servers = s] : s \in ServerDicts}
    \cup {[BaseDoc EXCEPT !.models = m] : m \in ModelDicts}
    \cup {[BaseDoc EXCEPT !.quality = q] : q \in Qualities}
    \cup {[BaseDoc EXCEPT !.servicelevels = s] : s \in ServiceLevels}
    \cup {[BaseDoc EXCEPT !.info.contact = c, !.servers = s, !.models = m,
                          !.quality = q, !.servicelevels = l] :
             <<c, s, m, q, l>> \in
                 {None, FullContact} \X {Dict(<<>>), FullServers} \X {Dict(<<>>), FullModels}
                 \X {None, FullQuality}
                 \X {None, ServiceLevelObject({"availability", "latency"}, PlainSla)}}

(* ------------------------------ to_odps -------------------------------- *)
NoDoc == [k |-> "nodoc"]

Raised(e) == [k |-> "error", type |-> e]

\* DataContractSpecification.to_dict(): the populated top-level attributes
to_dict(d) ==
    LET attrs == {"id", "info", "tags", "servers", "models", "quality", "servicelevels"}
    IN [a \in {b \in attrs : d[b].k \notin {"missing", "none"}} |-> d[a]]

\* lines 34-62: the base structure
Base(d) ==
    [version |-> "3.0",
     schema |-> "https://opendataproducts.org/dev/schema/odps.yaml",
     product |->
        [contract |->
            [id |-> AttrOr(d, "id", Str("")),
             type |-> "DCS",
             contractVersion |-> "1.1.0",
             spec |-> IF d.hasToDict THEN to_dict(d) ELSE EmptyDict],
         details |->
            [en |->
                [name |-> ValueOr(d.info.title, Str("")),
                 description |-> ValueOr(d.info.description, Str("")),
                 productVersion |-> ValueOr(d.info.version, Str("1.0.0")),
                 status |-> AttrOr(d.info, "status", Str("active")),
                 visibility |-> "public",
                 tags |-> AttrOr(d, "tags", List(<<>>)),
                 categories |-> <<>>]],
         dataHolder |-> [description |-> AttrOr(d.info, "owner", Str(""))]]]

\* lines 66-69: the support section of a contact
Support(contact) ==
    [email |-> AttrOr(contact, "email", Str("")),
     documentationURL |-> AttrOr(contact, "url", Str(""))]

\* a defect: the last server is taken instead of the first
LastServer(servers) == Items(servers)[Len(Items(servers))].val

\* line 74: next(iter(servers.values()))
FirstServer(servers) == Items(servers)[1].val

\* lines 75-78: the dataAccess section of a server
ServerAccess(first_server) ==
    [type |-> AttrOr(first_server, "type", Str("API")),
     format |-> AttrOr(first_server, "format", Str("JSON"))]

\* lines 81-84: the default dataAccess section
DefaultAccess == [type |-> Str("API"), format |-> Str("JSON")]

\* lines 93-101: one entry of a schema's fields
FieldInfo(name, field) ==
    LET info == [name |-> name,
                 description |-> AttrOr(field, "description", Str("")),
                 type |-> AttrOr(field, "type", Str("string"))]
    IN IF HasAttr(field, "format") /\ Truthy(field.format)
       THEN info @@ ("format" :> field.format)
       ELSE info

\* lines 91-103: the fields list of one model
FieldInfos(model) ==
    [i \in 1..Len(Items(model.fields)) |->
        FieldInfo(Items(model.fields)[i].name, Items(model.fields)[i].val)]

\* a defect: `fields = []` is hoisted out of the loop over the models, so
\* that every schema holds the fields of the models before it as well
RECURSIVE FieldsUpTo(_, _)
FieldsUpTo(models, i) ==
    IF i = 0 THEN <<>>
    ELSE FieldsUpTo(models, i - 1) \o FieldInfos(Items(models)[i].val)

SchemasSharedFields(models) ==
    [i \in 1..Len(Items(models)) |->
        [name |-> Items(models)[i].name,
         description |-> AttrOr(Items(models)[i].val, "description", Str("")),
         fields |-> FieldsUpTo(models, i)]]

\* lines 88-109: the schemas list
Schemas(models) ==
    [i \in 1..Len(Items(models)) |->
        [name |-> Items(models)[i].name,
         description |-> AttrOr(Items(models)[i].val, "description", Str("")),
         fields |-> FieldInfos(Items(models)[i].val)]]

\* lines 119-130: the quality items of the document's quality object
QualityItems(quality) ==
    IF HasAttr(quality, "specification") /\ Truthy(quality.specification)
    THEN <<[dimension |-> "Accuracy",
            displaytitle |-> <<[en |-> "Data Quality"]>>,
            monitoring |-> [type |-> AttrOr(quality, "type", Str("custom")),
                            spec |-> quality.specification]]>>
    ELSE <<>>

\* lines 140-145: the mapping the service levels are iterated as; a
\* ServiceLevel object has no items() and is wrapped under one key
ServiceLevelsDict(servicelevels) ==
    IF servicelevels.k = "dict"
    THEN Items(servicelevels)
    ELSE <<[name |-> "servicelevel", val |-> servicelevels]>>

\* lines 149-164: one SLA item
SlaItem(sla_key, sla) ==
    LET item == [dimension |-> Capitalize(sla_key),
                 displaytitle |-> <<[en |-> <<Capitalize(sla_key), " SLA">>]>>,
                 monitoring |-> [type |-> "custom",
                                 spec |-> AttrOr(sla, "description", Str(""))]]
    IN IF HasAttr(sla, "percentage")
       THEN item @@ ("objective" :> sla.percentage) @@ ("unit" :> Str("percentage"))
       ELSE IF HasAttr(sla, "threshold")
       THEN item @@ ("objective" :> sla.threshold) @@ ("unit" :> Str("hours"))
       ELSE item

\* lines 137-166: the SLA items
SlaItems(servicelevels) ==
    [i \in 1..Len(ServiceLevelsDict(servicelevels)) |->
        SlaItem(ServiceLevelsDict(servicelevels)[i].name,
                ServiceLevelsDict(servicelevels)[i].val)]

Init ==
    /\ src \in Docs
    /\ pc = "idle"
    /\ odps = NoDoc
    /\ results = <<>>

\* a call of to_odps(src): lines 34-62; data_contract_spec.info.title
\* raises AttributeError when info is not an object
Call ==
    /\ pc = "idle"
    /\ Len(results) < MaxCalls
    /\ IF src.info.k = "obj"
       THEN /\ odps' = Base(src)
            /\ pc' = "contact"
            /\ UNCHANGED results
       ELSE /\ results' = Append(results, Raised("AttributeError"))
            /\ UNCHANGED <<odps, pc>>
    /\ UNCHANGED src

\* lines 64-69
AddContact ==
    /\ pc = "contact"
    /\ IF HasAttr(src.info, "contact") /\ Truthy(src.info.contact)
       THEN odps' = [odps EXCEPT !.product = @ @@ ("support" :> Support(src.info.contact))]
       ELSE UNCHANGED odps
    /\ pc' = "dataAccess"
    /\ UNCHANGED <<src, results>>

\* a defect: the test that servers is not empty is dropped, and
\* next(iter(...)) raises StopIteration on an empty mapping
AddDataAccessUnguarded ==
    /\ pc = "dataAccess"
    /\ IF HasAttr(src, "servers") /\ Truthy(src.servers)
       THEN /\ odps' = [odps EXCEPT !.product =
                           @ @@ ("dataAccess" :> ServerAccess(FirstServer(src.servers)))]
            /\ pc' = "schemas"
            /\ UNCHANGED results
       ELSE /\ results' = Append(results, Raised("StopIteration"))
            /\ odps' = NoDoc
            /\ pc' = "idle"
    /\ UNCHANGED src

\* lines 71-84
AddDataAccess ==
    /\ pc = "dataAccess"
    /\ IF HasAttr(src, "servers") /\ Truthy(src.servers)
       THEN odps' = [odps EXCEPT !.product =
                        @ @@ ("dataAccess" :> ServerAccess(FirstServer(src.servers)))]
       ELSE odps' = [odps EXCEPT !.product = @ @@ ("dataAccess" :> DefaultAccess)]
    /\ pc' = "schemas"
    /\ UNCHANGED <<src, results>>

\* lines 86-115
AddSchemas ==
    /\ pc = "schemas"
    /\ IF HasAttr(src, "models") /\ Truthy(src.models)
       THEN LET en == odps.product.details.en
                metadata == IF "metadata" \in DOMAIN en THEN en.metadata ELSE EmptyDict
            IN odps' = [odps EXCEPT !.product.details.en =
                           ("metadata" :> (("schemas" :> Schemas(src.models)) @@ metadata)) @@ @]
       ELSE UNCHANGED odps
    /\ pc' = "quality"
    /\ UNCHANGED <<src, results>>

\* a defect: quality_items is a list shared by all calls, so that a call
\* starts from the items of the call before it
AddQualityShared ==
    /\ pc = "quality"
    /\ LET earlier == IF results # <<>> /\ "product" \in DOMAIN results[Len(results)]
                         /\ "dataQuality" \in DOMAIN results[Len(results)].product
                      THEN results[Len(results)].product.dataQuality
                      ELSE <<>>
           quality_items == IF HasAttr(src, "quality") /\ Truthy(src.quality)
                            THEN earlier \o QualityItems(src.quality)
                            ELSE <<>>
       IN IF quality_items # <<>>
          THEN odps' = [odps EXCEPT !.product = @ @@ ("dataQuality" :> quality_items)]
          ELSE UNCHANGED odps
    /\ pc' = "sla"
    /\ UNCHANGED <<src, results>>

\* lines 117-133
AddQuality ==
    /\ pc = "quality"
    /\ IF HasAttr(src, "quality") /\ Truthy(src.quality)
          /\ QualityItems(src.quality) # <<>>
       THEN odps' = [odps EXCEPT !.product = @ @@ ("dataQuality" :> QualityItems(src.quality))]
       ELSE UNCHANGED odps
    /\ pc' = "sla"
    /\ UNCHANGED <<src, results>>

\* a defect: the wrapped service levels are stored back into the source
AddSLAInPlace ==
    /\ pc = "sla"
    /\ IF HasAttr(src, "servicelevels") /\ Truthy(src.servicelevels)
          /\ SlaItems(src.servicelevels) # <<>>
       THEN /\ odps' = [odps EXCEPT !.product = @ @@ ("SLA" :> SlaItems(src.servicelevels))]
            /\ src' = [src EXCEPT !.servicelevels = Dict(ServiceLevelsDict(@))]
       ELSE UNCHANGED <<odps, src>>
    /\ pc' = "return"
    /\ UNCHANGED results

\* lines 135-169
AddSLA ==
    /\ pc = "sla"
    /\ IF HasAttr(src, "servicelevels") /\ Truthy(src.servicelevels)
          /\ SlaItems(src.servicelevels) # <<>>
       THEN odps' = [odps EXCEPT !.product = @ @@ ("SLA" :> SlaItems(src.servicelevels))]
       ELSE UNCHANGED odps
    /\ pc' = "return"
    /\ UNCHANGED <<src, results>>

\* line 172
Return ==
    /\ pc = "return"
    /\ results' = Append(results, odps)
    /\ odps' = NoDoc
    /\ pc' = "idle"
    /\ UNCHANGED src

Next ==
    \/ Call
    \/ AddContact
    \/ AddDataAccess
    \/ AddSchemas
    \/ AddQuality
    \/ AddSLA
    \/ Return

Spec == Init /\ [][Next]_vars

(* ------------------------------ claims --------------------------------- *)
\* the documents returned so far
ReturnedDocs == {results[i] : i \in {j \in 1..Len(results) : "product" \in DOMAIN results[j]}}

Absent(v) == v.k \in {"missing", "none"}

\* the value under key a of a built dictionary, None when the key is omitted
KeyOrNone(dict, a) == IF a \in DOMAIN dict THEN dict[a] ELSE None

\* the list under key a of a built dictionary, empty when the key is omitted
ListOrEmpty(dict, a) == IF a \in DOMAIN dict THEN dict[a] ELSE <<>>

ProductSections ==
    {"contract", "details", "dataHolder", "support", "dataAccess", "dataQuality", "SLA"}

\* C1: every returned document has the same top-level sections under
\* product, whichever parts of the source are present.
C1_StableSections == \A r \in ReturnedDocs : DOMAIN r.product = ProductSections

\* C2: on a source that has info, whatever else is present or absent,
\* to_odps returns a document and raises no error.
C2_NoError ==
    src.info.k = "obj" =>
        /\ \A i \in 1..Len(results) : "product" \in DOMAIN results[i]
        /\ pc \in {"idle", "contact", "dataAccess", "schemas", "quality", "sla", "return"}

C2_Witness ==
    /\ src.info.k = "obj"
    /\ Absent(src.info.contact)
    /\ ~Truthy(src.servers) /\ ~Truthy(src.models) /\ ~Truthy(src.servicelevels)
    /\ results # <<>>
    /\ "product" \in DOMAIN results[1]
    /\ DOMAIN results[1].product = {"contract", "details", "dataHolder", "dataAccess"}

\* C3: an absent optional source field gives a null or omitted destination
\* field, never a placeholder string.
C3_NoPlaceholder ==
    \A r \in ReturnedDocs :
        LET en == r.product.details.en
            servers == Items(src.servers)
            models == Items(src.models)
        IN /\ Absent(src.info.title) => en.name = None
           /\ Absent(src.info.description) => en.description = None
           /\ Absent(src.info.version) => en.productVersion = None
           /\ Absent(src.info.status) => en.status = None
           /\ Absent(src.info.owner) => r.product.dataHolder.description = None
           /\ (src.info.contact.k = "obj" /\ Absent(src.info.contact.email))
                 => KeyOrNone(KeyOrNone(r.product, "support"), "email") = None
           /\ (src.info.contact.k = "obj" /\ Absent(src.info.contact.url))
                 => KeyOrNone(KeyOrNone(r.product, "support"), "documentationURL") = None
           /\ (servers # <<>> /\ Absent(servers[1].val.type))
                 => r.product.dataAccess.type = None
           /\ (servers # <<>> /\ Absent(servers[1].val.format))
                 => r.product.dataAccess.format = None
           /\ \A i \in 1..Len(models) :
                 /\ Absent(models[i].val.description)
                       => en.metadata.schemas[i].description = None
                 /\ \A j \in 1..Len(Items(models[i].val.fields)) :
                       LET field == Items(models[i].val.fields)[j].val
                           info == en.metadata.schemas[i].fields[j]
                       IN /\ Absent(field.description) => info.description = None
                          /\ Absent(field.type) => info.type = None

\* C4: with one or more servers, dataAccess.type and dataAccess.format are
\* those of the first server in insertion order, whatever the others hold.
C4_FirstServer ==
    \A r \in ReturnedDocs :
        Items(src.servers) # <<>> =>
            LET a == Items(src.servers)[1].val
            IN /\ r.product.dataAccess.type = (IF a.type = Missing THEN Str("API") ELSE a.type)
               /\ r.product.dataAccess.format =
                      (IF a.format = Missing THEN Str("JSON") ELSE a.format)

C4_Witness ==
    /\ Len(Items(src.servers)) = 2
    /\ Items(src.servers)[1].val.type = Str("s3")
    /\ Items(src.servers)[2].val.type = Str("kafka")
    /\ Items(src.servers)[1].val.format = Str("csv")
    /\ Items(src.servers)[2].val.format = Str("avro")
    /\ \E r \in ReturnedDocs :
          r.product.dataAccess = [type |-> Str("s3"), format |-> Str("csv")]

\* the populated dimensions of the source's service levels, in their order
PopulatedDimensions ==
    LET entries == IF src.servicelevels.k = "dict" THEN src.servicelevels.items
                   ELSE IF src.servicelevels.k = "obj" THEN src.servicelevels.dims
                   ELSE <<>>
    IN SelectSeq(entries, LAMBDA e : e.val.k = "obj")

\* C5: the SLA list has exactly one entry per populated service-level
\* dimension and none for an absent one.
C5_SlaPerDimension ==
    \A r \in ReturnedDocs :
        LET sla == ListOrEmpty(r.product, "SLA")
        IN /\ Len(sla) = Len(PopulatedDimensions)
           /\ \A i \in 1..Len(sla) :
                 sla[i].dimension = Capitalize(PopulatedDimensions[i].name)

FirstNonNull(a, b) == IF ~Absent(a) THEN a ELSE IF ~Absent(b) THEN b ELSE None

\* C6: the objective of an SLA entry is the first non-null of the
\* dimension's (percentage, threshold), its unit the first non-null of the
\* dimension's (unit, interval).
C6_ObjectiveAndUnit ==
    \A r \in ReturnedDocs :
        LET sla == ListOrEmpty(r.product, "SLA")
        IN \A i \in 1..Len(sla) :
              i <= Len(PopulatedDimensions) =>
                  LET dim == PopulatedDimensions[i].val
                  IN /\ KeyOrNone(sla[i], "objective") =
                            FirstNonNull(dim.percentage, dim.threshold)
                     /\ KeyOrNone(sla[i], "unit") = FirstNonNull(dim.unit, dim.interval)

\* the quality rules of the models i.. of the source: per model the
\* model-level rules, then the rules of its fields in the fields' order
RECURSIVE FieldRules(_, _)
FieldRules(fields, j) ==
    IF j > Len(fields) THEN <<>>
    ELSE fields[j].val.quality \o FieldRules(fields, j + 1)

RECURSIVE ModelRules(_, _)
ModelRules(models, i) ==
    IF i > Len(models) THEN <<>>
    ELSE models[i].val.quality \o FieldRules(Items(models[i].val.fields), 1)
         \o ModelRules(models, i + 1)

\* C7: the data-quality list holds one entry per quality rule of the models
\* and their fields: models in order, model-level rules first, then the
\* fields in order, rules in order.
C7_QualityPerRule ==
    \A r \in ReturnedDocs :
        LET rules == ModelRules(Items(src.models), 1)
            quality == ListOrEmpty(r.product, "dataQuality")
        IN /\ Len(quality) = Len(rules)
           /\ \A i \in 1..Len(quality) :
                 quality[i].dimension =
                     (IF rules[i].type = None THEN "custom" ELSE rules[i].type.v)

\* C8: two calls on the same unmodified source return identical documents.
C8_Deterministic == \A i, j \in 1..Len(results) : results[i] = results[j]

C8_Witness ==
    /\ Len(results) >= 2
    /\ "product" \in DOMAIN results[2]
    /\ {"support", "dataQuality", "SLA"} \subseteq DOMAIN results[2].product
    /\ "metadata" \in DOMAIN results[2].product.details.en

\* C9: no step of to_odps changes the source document.
C9_SourceUnchanged == [][src' = src]_vars

C9_Witness ==
    /\ results # <<>>
    /\ "product" \in DOMAIN results[1]
    /\ "SLA" \in DOMAIN results[1].product
    /\ src.servicelevels.k = "obj"
    /\ src.tags = List(<<"sales", "orders">>)

\* C10: with models, metadata.schemas has one entry per model in insertion
\* order, each with one fields entry per field in insertion order named by
\* the source key; without models, details.en has no metadata key.
C10_Schemas ==
    \A r \in ReturnedDocs :
        LET en == r.product.details.en
            models == Items(src.models)
        IN IF models = <<>>
           THEN "metadata" \notin DOMAIN en
           ELSE /\ "metadata" \in DOMAIN en
                /\ Len(en.metadata.schemas) = Len(models)
                /\ \A i \in 1..Len(models) :
                      LET fields == Items(models[i].val.fields)
                          schema == en.metadata.schemas[i]
                      IN /\ schema.name = models[i].name
                         /\ Len(schema.fields) = Len(fields)
                         /\ \A j \in 1..Len(fields) : schema.fields[j].name = fields[j].name

C10_Witness ==
    /\ Len(Items(src.models)) = 2
    /\ Items(src.models)[1].name = "b"
    /\ Len(Items(Items(src.models)[1].val.fields)) = 2
    /\ Items(Items(src.models)[1].val.fields)[1].name = "b"
    /\ Len(Items(Items(src.models)[2].val.fields)) = 1
    /\ \E r \in ReturnedDocs :
          /\ Len(r.product.details.en.metadata.schemas) = 2
          /\ Len(r.product.details.en.metadata.schemas[1].fields) = 2

====
